---- MODULE Spec2Model ----
(***************************************************************************)
(* Chalet bookings: the poll-triggered program (chalet_bookings_v2.py),    *)
(* the event-triggered program (chalet_bookings_v2.1.py) and the master    *)
(* sheet ("ledger") both write to through Booking.add_to_master.           *)
(*                                                                         *)
(* Abstractions.  A string the programs only copy is the record            *)
(* Str(b, p, key): "the answer of person p of submission b to question     *)
(* key".  Timestamps are integers, 1970-01-01 is Epoch.  The SHA-256       *)
(* fingerprint of a table is the table itself (no collisions).  The        *)
(* 'Identifier' column of the master sheet is the column the programs      *)
(* write the id marker to (column 2).                                      *)
(***************************************************************************)
EXTENDS Integers, Sequences, FiniteSets, TLC

\* ---------------------------------------------------------------- bounds
MaxRows == 2        \* data rows the response sheet can grow to
MaxTime == 2        \* last clock tick
MaxRuns == 3        \* poll-triggered runs per behaviour
MaxPerson == 3      \* "(person n)" questions of the form, n = 2..MaxPerson
MaxInitRows == 1    \* data rows the master sheet holds before the programs run
MaxEvents == 2      \* submission events delivered to the webhook handlers
MaxRetries == 3     \* largest max_retries given to retry
MaxRecipients == 1  \* longest recipient list given to send_booking_alert
MaxLabel == 6       \* largest n of a "(person n)" answer given to the parser alone
MaxPunct == 1       \* punctuation characters interleaved in a phone number

Epoch == 0          \* datetime(1970, 1, 1)

\* ---------------------------------------------------------------- values
None == [kind |-> "none", n |-> 0, b |-> 0, p |-> 0, key |-> ""]
Num(n) == [kind |-> "int", n |-> n, b |-> 0, p |-> 0, key |-> ""]
Yes == [kind |-> "bool", n |-> 1, b |-> 0, p |-> 0, key |-> ""]
Str(b, p, key) == [kind |-> "str", n |-> 0, b |-> b, p |-> p, key |-> key]

KV(k, v) == [k |-> k, v |-> v]

MASTER_COLUMNS_MAPPING ==
  [first_name |-> 3, family_name |-> 4, full_name |-> 5, dob |-> 6,
   add1 |-> 7, add2 |-> 8, add3 |-> 9, town |-> 10, postcode |-> 11,
   email |-> 12, phone |-> 13, group |-> 14, start_date |-> 16,
   end_date |-> 17, chalet |-> 19, room |-> 20, booked_on |-> 21,
   kids_meals |-> 41, dietaries |-> 42, how_heard |-> 43]

IdCol == 2
ConfirmedCol == 15

\* MASTER_COLUMNS_MAPPING.get(key): 0 stands for None
ColumnOf(key) ==
  IF key \in DOMAIN MASTER_COLUMNS_MAPPING THEN MASTER_COLUMNS_MAPPING[key] ELSE 0

\* ------------------------------------------------------------- the parser
\* A submission: ts its Timestamp, valid = every required answer is there,
\* persons = the n for which "First name (person n)" is answered.
Persons == 2..MaxPerson

\* a variant of GuestKeys that takes every answered person from
\* person_number on, passing over the unanswered ones
GuestKeys_PassGaps(persons, person_number) ==
  LET ps == {n \in persons : n >= person_number}
  IN [i \in 1..Cardinality(ps) |->
        CHOOSE n \in ps : Cardinality({m \in ps : m < n}) = i - 1]

RECURSIVE GuestKeys(_, _)
GuestKeys(persons, person_number) ==
  IF person_number \notin persons THEN <<>>
  ELSE <<person_number>> \o GuestKeys(persons, person_number + 1)

leader_details(b) ==
  << KV("first_name", Str(b, 1, "first_name")),
     KV("family_name", Str(b, 1, "family_name")),
     KV("full_name", Str(b, 1, "full_name")),
     KV("email", Str(b, 1, "email")),
     KV("dob", Str(b, 1, "dob")),
     KV("add1", Str(b, 1, "add1")),
     KV("add2", Str(b, 1, "add2")),
     KV("add3", Str(b, 1, "add3")),
     KV("town", Str(b, 1, "town")),
     KV("postcode", Str(b, 1, "postcode")),
     KV("phone", Str(b, 1, "phone")),
     KV("room", Str(b, 1, "room")),
     KV("group", Str(b, 1, "family_name")),
     KV("chalet", Str(b, 1, "chalet")),
     KV("start_date", Str(b, 1, "start_date")),
     KV("end_date", Str(b, 1, "end_date")),
     KV("booked_on", Str(b, 1, "booked_on")) >>

guest_details(b, p) ==
  << KV("first_name", Str(b, p, "first_name")),
     KV("family_name", Str(b, p, "family_name")),
     KV("full_name", Str(b, p, "full_name")),
     KV("email", Str(b, p, "email")),
     KV("dob", Str(b, p, "dob")),
     KV("room", Str(b, p, "room")),
     KV("group", Str(b, 1, "family_name")),
     KV("chalet", Str(b, 1, "chalet")),
     KV("start_date", Str(b, 1, "start_date")),
     KV("end_date", Str(b, 1, "end_date")),
     KV("booked_on", Str(b, 1, "booked_on")) >>

trailing(b) ==
  << KV("how_heard", Str(b, 0, "how_heard")),
     KV("dietaries", Str(b, 0, "dietaries")),
     KV("kids_meals", Str(b, 0, "kids_meals")) >>

\* Booking.__dict__ without leader_details and guests, in attribute order
BookingV2(b) ==
  << KV("booking_time", None), KV("start_date", None), KV("end_date", None) >>
  \o trailing(b)

BookingV21(b) == trailing(b)

Guests(b, persons) ==
  LET keys == GuestKeys(persons, 2)
  IN [i \in 1..Len(keys) |-> KV(keys[i], guest_details(b, keys[i]))]

\* parse_row of the polling program; the caller handles row.valid = FALSE
parse_row(b, row) ==
  [src |-> b, rest |-> BookingV2(b), leader |-> leader_details(b),
   guests |-> Guests(b, row.persons)]

\* parse_booking of the webhook program
parse_booking(b, data) ==
  [src |-> b, rest |-> BookingV21(b), leader |-> leader_details(b),
   guests |-> Guests(b, data.persons)]

\* ----------------------------------------------------------- the ledger
\* A sheet is a function from <<row, col>> to the value of a non-blank cell.
Cell(row, col, value) == [row |-> row, col |-> col, value |-> value]

map_fields(data, row) ==
  LET mapped == SelectSeq(data, LAMBDA kv : ColumnOf(kv.k) # 0)
  IN [i \in 1..Len(mapped) |-> Cell(row, ColumnOf(mapped[i].k), mapped[i].v)]

RECURSIVE guest_cells(_, _, _)
guest_cells(guests, start_row, i) ==
  IF i > Len(guests) THEN <<>>
  ELSE <<Cell(start_row + i, IdCol, Num(start_row + i - 1))>>
       \o map_fields(guests[i].v, start_row + i)
       \o guest_cells(guests, start_row, i + 1)

\* rows of the sheet below the header whose 'Identifier' cell is not blank
RowsOf(sheet) == {rc[1] : rc \in DOMAIN sheet}

master(sheet) == {r \in RowsOf(sheet) : r >= 2 /\ <<r, IdCol>> \in DOMAIN sheet}

\* a variant of StartRow that forgets the header row
StartRow_NoHeader(sheet) == Cardinality(master(sheet)) + 1

StartRow(sheet) == Cardinality(master(sheet)) + 2

\* a variant of build_cells that leaves the guest rows to a later call
build_cells_LeaderOnly(booking, start_row) ==
  << Cell(start_row, IdCol, Num(start_row - 1)),
     Cell(start_row, ConfirmedCol, Yes) >>
  \o map_fields(booking.rest, start_row)
  \o map_fields(booking.leader, start_row)

\* the cell list add_to_master builds for a booking
build_cells(booking, start_row) ==
  << Cell(start_row, IdCol, Num(start_row - 1)),
     Cell(start_row, ConfirmedCol, Yes) >>
  \o map_fields(booking.rest, start_row)
  \o map_fields(booking.leader, start_row)
  \o guest_cells(booking.guests, start_row, 1)

Positions(cells) == {<<cells[i].row, cells[i].col>> : i \in 1..Len(cells)}

LastAt(cells, rc) ==
  LET at == {i \in 1..Len(cells) : <<cells[i].row, cells[i].col>> = rc}
  IN cells[CHOOSE i \in at : \A j \in at : j <= i]

\* a variant of update_cells that fills blank cells only
update_cells_BlankOnly(sheet, cells) ==
  LET written == {rc \in Positions(cells) : LastAt(cells, rc).value # None}
  IN [rc \in (DOMAIN sheet) \cup written |->
        IF rc \in DOMAIN sheet THEN sheet[rc] ELSE LastAt(cells, rc).value]

\* sheet.update_cells: one request; a later cell of the list wins over an
\* earlier one at the same position, a null value leaves the cell as it is
update_cells(sheet, cells) ==
  LET written == {rc \in Positions(cells) : LastAt(cells, rc).value # None}
  IN [rc \in (DOMAIN sheet) \cup written |->
        IF rc \in written THEN LastAt(cells, rc).value ELSE sheet[rc]]

\* ------------------------------------------------------------ the state
VARIABLES
  now,                \* the clock
  srcHeader, srcRows, \* the response sheet: header row present, data rows
  ledger,             \* the master sheet
  hashFile,           \* Data/hash.json
  bookings,           \* Data/bookings.json, id -> booking
  pc, runs,           \* the polling process: position, runs started so far
  debug, started,     \* its --debug flag and main's started
  responses, todo,    \* the fetched table; rows of new_responses not yet done
  current_hash, previous_datetime,  \* globals set by check_sheet_changed
  cur, last,          \* history: the latest run, the run before it
  wrote,              \* history: source row -> successful ledger writes
  hpc, hbooking, hcells,  \* the webhook handlers: position, booking, cell list
  events,             \* submission events delivered so far
  alerts,             \* bookings a "new chalet booking" alert was sent for
  nwrites,            \* history: successful update_cells calls of the handlers
  hcall,              \* history: the last add_to_master call of each handler
  rt,                 \* a call of a function wrapped by retry
  al,                 \* a call of send_booking_alert
  phone,              \* a call of parse_phone_number
  parsed              \* a call of parse_booking / parse_row on one record

pollVars == <<hashFile, bookings, pc, runs, debug, started, responses, todo,
              current_hash, previous_datetime, cur, last, wrote>>
hookVars == <<hpc, hbooking, hcells, events, alerts, nwrites, hcall>>
fnVars == <<rt, al, phone, parsed>>
envVars == <<now, srcHeader, srcRows>>
progVars == <<envVars, ledger, pollVars, hookVars>>
vars == <<now, srcHeader, srcRows, ledger, hashFile, bookings, pc, runs,
          debug, started, responses, todo, current_hash, previous_datetime,
          cur, last, wrote, hpc, hbooking, hcells, events, alerts,
          nwrites, hcall, rt, al, phone, parsed>>

Handlers == {1, 2}

NoBooking == [src |-> 0, rest |-> <<>>, leader |-> <<>>, guests |-> <<>>]

\* logger: TRUE for a Logger object, FALSE for None; delivery: whether the
\* mail server accepts the message
NoRetry == [max_retries |-> 0, logger |-> FALSE, delivery |-> FALSE,
            attempt |-> 0, calls |-> 0, sleeps |-> 0, warnings |-> 0,
            alerts |-> 0, status |-> "none", raised |-> "none",
            raised_attempt |-> 0]
NoAlert == [logger |-> FALSE, debug |-> FALSE, log_only |-> FALSE,
            recipient_emails |-> <<>>, delivery |-> FALSE, status |-> "none",
            sent |-> FALSE, logged |-> <<>>]
NoPhone == [prefix |-> <<>>, national |-> <<>>, number |-> <<>>,
            status |-> "none", result |-> <<>>]
NoParse == [program |-> "none", data |-> [ts |-> 0, valid |-> FALSE, persons |-> {}],
            status |-> "none", booking |-> NoBooking]

EmptyDF == [header |-> FALSE, rows |-> <<>>]
NoFile == [exists |-> FALSE, hash |-> EmptyDF, datetime |-> Epoch]
NoRun == [outcome |-> "none", debug |-> FALSE, started |-> Epoch,
          pre |-> NoFile, table |-> EmptyDF, hwm |-> Epoch, changed |-> FALSE,
          selected |-> <<>>, base |-> 0, appends |-> 0, writes |-> <<>>]
\* what is kept of the run before the latest one
Summary(c) == [outcome |-> c.outcome, table |-> c.table, selected |-> c.selected]

NoCall == [booking |-> NoBooking, sheet |-> <<>>, cells |-> <<>>,
           updates |-> 0, ok |-> FALSE, readAt |-> 0, wroteAt |-> 0]

\* the master sheet before the programs run: row r + 1 holds a name, and an
\* Identifier where shape[r] says so
InitialSheet(shape) ==
  LET named == {<<r + 1, 5>> : r \in 1..Len(shape)}
      ids == {<<r + 1, IdCol>> : r \in {q \in 1..Len(shape) : shape[q]}}
  IN [rc \in named \cup ids |->
        IF rc[2] = IdCol THEN Num(rc[1] - 1) ELSE Str(0, rc[1], "full_name")]

InitialShapes == UNION {[1..n -> BOOLEAN] : n \in 0..MaxInitRows}

InitCommon ==
  /\ now = 1
  /\ srcHeader = FALSE
  /\ srcRows = <<>>
  /\ hashFile = NoFile
  /\ bookings = <<>>
  /\ pc = "idle"
  /\ runs = 0
  /\ debug = FALSE
  /\ started = Epoch
  /\ responses = EmptyDF
  /\ todo = <<>>
  /\ current_hash = EmptyDF
  /\ previous_datetime = Epoch
  /\ cur = NoRun
  /\ last = Summary(NoRun)
  /\ wrote = [i \in 1..MaxRows |-> 0]
  /\ hpc = [h \in Handlers |-> "idle"]
  /\ hbooking = [h \in Handlers |-> NoBooking]
  /\ hcells = [h \in Handlers |-> <<>>]
  /\ events = 0
  /\ alerts = {}
  /\ nwrites = 0
  /\ hcall = [h \in Handlers |-> NoCall]

\* no helper function is being called on its own
NoCalls ==
  /\ rt = NoRetry
  /\ al = NoAlert
  /\ phone = NoPhone
  /\ parsed = NoParse

\* the polling program starts on a master sheet holding its header row only
Init ==
  /\ InitCommon
  /\ NoCalls
  /\ ledger = InitialSheet(<<>>)

\* ------------------------------------------------------ the environment
\* the environment is followed as long as a run can still observe it
Observed == pc # "idle" \/ runs < MaxRuns

Tick ==
  /\ Observed
  /\ now < MaxTime
  /\ now' = now + 1
  /\ UNCHANGED <<srcHeader, srcRows, ledger>>
  /\ UNCHANGED pollVars
  /\ UNCHANGED hookVars
  /\ UNCHANGED fnVars

\* the form is linked to the response sheet: the header row appears
CreateHeader ==
  /\ ~srcHeader
  /\ srcHeader' = TRUE
  /\ UNCHANGED <<now, srcRows, ledger>>
  /\ UNCHANGED pollVars
  /\ UNCHANGED hookVars
  /\ UNCHANGED fnVars

Submissions ==
  {[ts |-> now, valid |-> TRUE, persons |-> ps] : ps \in SUBSET Persons}
  \cup {[ts |-> now, valid |-> FALSE, persons |-> {}]}

\* the submissions the response sheet receives: a booking without guests, or
\* one that lacks a required answer
PollSubmissions == {s \in Submissions : s.persons = {}}

\* a form submission appends one row, stamped with the time of submission
AddRow ==
  /\ Observed
  /\ srcHeader
  /\ Len(srcRows) < MaxRows
  /\ \E row \in PollSubmissions : srcRows' = Append(srcRows, row)
  /\ UNCHANGED <<now, srcHeader, ledger>>
  /\ UNCHANGED pollVars
  /\ UNCHANGED hookVars
  /\ UNCHANGED fnVars

\* -------------------------------------------------- the polling program
\* pd.util.hash_pandas_object + sha256 of the whole table
Fingerprint(df) == df

\* a variant of dump_to_json that stores the new booking under id 1 and moves
\* every stored booking one id up
dump_to_json_Prepend(file, booking) ==
  LET ids == DOMAIN file
      new_id == (IF ids = {} THEN 0 ELSE CHOOSE m \in ids : \A k \in ids : k <= m) + 1
  IN [k \in ids \cup {new_id} |-> IF k = 1 THEN booking ELSE file[k - 1]]

\* Booking.dump_to_json
dump_to_json(file, booking) ==
  LET ids == DOMAIN file
      new_id == (IF ids = {} THEN 0 ELSE CHOOSE m \in ids : \A k \in ids : k <= m) + 1
  IN [k \in ids \cup {new_id} |-> IF k = new_id THEN booking ELSE file[k]]

\* a variant of check_sheet_changed without the fingerprint short-circuit
check_sheet_changed_NoShortCircuit(df, file) ==
  [changed |-> TRUE,
   current_hash |-> Fingerprint(df),
   previous_datetime |-> IF file.exists THEN file.datetime ELSE Epoch]

\* check_sheet_changed: whether the table differs from the stored fingerprint,
\* and the two globals it sets when it does
check_sheet_changed(df, file) ==
  [changed |-> ~(file.exists /\ file.hash = Fingerprint(df)),
   current_hash |-> Fingerprint(df),
   previous_datetime |-> IF file.exists THEN file.datetime ELSE Epoch]

\* a variant of NewResponses that also takes the rows at the mark
NewResponses_AtMark(df, mark) ==
  SelectSeq([i \in 1..Len(df.rows) |-> i], LAMBDA i : df.rows[i].ts >= mark)

\* responses[responses['Timestamp'] > previous_datetime], as row numbers in
\* table order
NewResponses(df, mark) ==
  SelectSeq([i \in 1..Len(df.rows) |-> i], LAMBDA i : df.rows[i].ts > mark)

\* the process ends: its memory is gone, the outcome is recorded
Finish(outcome, c) ==
  /\ pc' = "idle"
  /\ responses' = EmptyDF
  /\ todo' = <<>>
  /\ current_hash' = EmptyDF
  /\ previous_datetime' = Epoch
  /\ debug' = FALSE
  /\ started' = Epoch
  /\ cur' = [c EXCEPT !.outcome = outcome]
  /\ last' = last

\* main, lines 237-249: started is taken, --debug removes both data files
StartRun ==
  /\ pc = "idle"
  /\ runs < MaxRuns
  /\ \E d \in BOOLEAN :
       /\ debug' = d
       /\ hashFile' = IF d THEN NoFile ELSE hashFile
       /\ bookings' = IF d THEN <<>> ELSE bookings
       /\ cur' = [NoRun EXCEPT !.outcome = "running", !.debug = d,
                               !.started = now, !.pre = hashFile,
                               !.base = IF d THEN 0 ELSE Cardinality(DOMAIN bookings)]
  /\ last' = Summary(cur)
  /\ started' = now
  /\ runs' = runs + 1
  /\ pc' = "fetch"
  /\ UNCHANGED <<responses, todo, current_hash, previous_datetime,
                 wrote, ledger>>
  /\ UNCHANGED envVars
  /\ UNCHANGED hookVars
  /\ UNCHANGED fnVars

\* process_responses, lines 210-215: the fetch raises
FetchFails ==
  /\ pc = "fetch"
  /\ Finish("fetch_failed", cur)
  /\ UNCHANGED <<hashFile, bookings, runs, wrote, ledger>>
  /\ UNCHANGED envVars
  /\ UNCHANGED hookVars
  /\ UNCHANGED fnVars

\* process_responses, lines 211-229, with check_sheet_changed
Fetch ==
  /\ pc = "fetch"
  /\ LET df == [header |-> srcHeader, rows |-> srcRows]
         empty == ~df.header /\ df.rows = <<>>
         check == check_sheet_changed(df, hashFile)
         mark == check.previous_datetime
         seen == [cur EXCEPT !.table = df]
     IN IF empty THEN
          Finish("empty", seen)
        ELSE IF ~check.changed THEN
          Finish("unchanged", seen)
        ELSE
          /\ responses' = df
          /\ current_hash' = check.current_hash
          /\ previous_datetime' = mark
          /\ todo' = NewResponses(df, mark)
          /\ cur' = [seen EXCEPT !.hwm = mark, !.changed = TRUE,
                                 !.selected = NewResponses(df, mark)]
          /\ pc' = "loop"
          /\ UNCHANGED <<last, debug, started>>
  /\ UNCHANGED <<hashFile, bookings, runs, wrote, ledger>>
  /\ UNCHANGED envVars
  /\ UNCHANGED hookVars
  /\ UNCHANGED fnVars

\* a variant of ProcessRow that logs a failed ledger write and goes on to the
\* next row
ProcessRow_GoOn ==
  /\ pc = "loop"
  /\ todo # <<>>
  /\ LET i == Head(todo)
         row == responses.rows[i]
         booking == parse_row(i, row)
         cells == build_cells(booking, StartRow(ledger))
         archived == [cur EXCEPT !.appends = @ + 1]
     IN IF ~row.valid THEN
          \* parse_row raises KeyError
          /\ Finish("parse_error", cur)
          /\ UNCHANGED <<bookings, ledger, wrote>>
        ELSE
          /\ bookings' = dump_to_json(bookings, booking)
          /\ \/ \* add_to_master raises, at get_all_values or at update_cells
                /\ todo' = Tail(todo)
                /\ cur' = archived
                /\ UNCHANGED <<ledger, wrote, pc, responses, current_hash,
                               previous_datetime, last, debug, started>>
             \/ \* add_to_master returns
                /\ ledger' = update_cells(ledger, cells)
                /\ wrote' = [wrote EXCEPT ![i] = @ + 1]
                /\ todo' = Tail(todo)
                /\ cur' = [archived EXCEPT !.writes = Append(@, i)]
                /\ UNCHANGED <<pc, responses, current_hash, previous_datetime,
                               last, debug, started>>
  /\ UNCHANGED <<hashFile, runs>>
  /\ UNCHANGED envVars
  /\ UNCHANGED hookVars
  /\ UNCHANGED fnVars

\* one iteration of the loop of process_responses, lines 230-234
ProcessRow ==
  /\ pc = "loop"
  /\ todo # <<>>
  /\ LET i == Head(todo)
         row == responses.rows[i]
         booking == parse_row(i, row)
         cells == build_cells(booking, StartRow(ledger))
         archived == [cur EXCEPT !.appends = @ + 1]
     IN IF ~row.valid THEN
          \* parse_row raises KeyError
          /\ Finish("parse_error", cur)
          /\ UNCHANGED <<bookings, ledger, wrote>>
        ELSE
          /\ bookings' = dump_to_json(bookings, booking)
          /\ \/ \* add_to_master raises, at get_all_values or at update_cells
                /\ Finish("write_error", archived)
                /\ UNCHANGED <<ledger, wrote>>
             \/ \* add_to_master returns
                /\ ledger' = update_cells(ledger, cells)
                /\ wrote' = [wrote EXCEPT ![i] = @ + 1]
                /\ todo' = Tail(todo)
                /\ cur' = [archived EXCEPT !.writes = Append(@, i)]
                /\ UNCHANGED <<pc, responses, current_hash, previous_datetime,
                               last, debug, started>>
  /\ UNCHANGED <<hashFile, runs>>
  /\ UNCHANGED envVars
  /\ UNCHANGED hookVars
  /\ UNCHANGED fnVars

\* a variant of SaveState that runs whatever is left of the loop
SaveState_Early ==
  /\ pc = "loop"
  /\ hashFile' = [exists |-> TRUE, hash |-> current_hash, datetime |-> started]
  /\ Finish("ok", cur)
  /\ UNCHANGED <<bookings, runs, wrote, ledger>>
  /\ UNCHANGED envVars
  /\ UNCHANGED hookVars
  /\ UNCHANGED fnVars

\* main, lines 253-254
SaveState ==
  /\ pc = "loop"
  /\ todo = <<>>
  /\ hashFile' = [exists |-> TRUE, hash |-> current_hash, datetime |-> started]
  /\ Finish("ok", cur)
  /\ UNCHANGED <<bookings, runs, wrote, ledger>>
  /\ UNCHANGED envVars
  /\ UNCHANGED hookVars
  /\ UNCHANGED fnVars

Next ==
  \/ Tick
  \/ CreateHeader
  \/ AddRow
  \/ StartRun
  \/ FetchFails
  \/ Fetch
  \/ ProcessRow
  \/ SaveState

Spec == Init /\ [][Next]_vars

\* the response sheet is also edited by hand: a complete row is entered
\* below the others with the current or any earlier Timestamp, so that the
\* table need not be in Timestamp order
InsertRow ==
  /\ Observed
  /\ srcHeader
  /\ Len(srcRows) < MaxRows
  /\ \E row \in PollSubmissions, t \in 1..now :
       /\ row.valid
       /\ srcRows' = Append(srcRows, [row EXCEPT !.ts = t])
  /\ UNCHANGED <<now, srcHeader, ledger>>
  /\ UNCHANGED pollVars
  /\ UNCHANGED hookVars
  /\ UNCHANGED fnVars

NextEdited ==
  \/ Tick
  \/ CreateHeader
  \/ InsertRow
  \/ StartRun
  \/ FetchFails
  \/ Fetch
  \/ ProcessRow
  \/ SaveState

\* the polling program over a response sheet that is edited by hand
SpecEdited == Init /\ [][NextEdited]_vars

\* the process exit status of a run: sys.exit(1) and an uncaught exception
\* both end the process with a non-zero status
ExitCode(outcome) == IF outcome = "ok" THEN 0 ELSE 1

SrcDF == [header |-> srcHeader, rows |-> srcRows]

\* --------------------------------------------------- the webhook program
\* google_form_webhook, lines 111-116: filter_data and parse_booking
Receive(h) ==
  /\ hpc[h] = "idle"
  /\ events < MaxEvents
  /\ events' = events + 1
  /\ \E data \in Submissions :
       IF ~data.valid THEN
         \* parse_booking raises KeyError: the request ends with an error
         UNCHANGED <<hpc, hbooking>>
       ELSE
         /\ hbooking' = [hbooking EXCEPT ![h] = parse_booking(events + 1, data)]
         /\ hpc' = [hpc EXCEPT ![h] = "read"]
  /\ UNCHANGED <<hcells, alerts, nwrites, hcall, ledger>>
  /\ UNCHANGED envVars
  /\ UNCHANGED pollVars
  /\ UNCHANGED fnVars

\* add_to_master, lines 69-102: the sheet is read and the cell list is built
ReadMaster(h) ==
  /\ hpc[h] = "read"
  /\ LET this == [NoCall EXCEPT !.booking = hbooking[h], !.sheet = ledger,
                                !.readAt = nwrites]
         cells == build_cells(hbooking[h], StartRow(ledger))
     IN \/ \* get_all_values raises: the request ends with an error
           /\ hcall' = [hcall EXCEPT ![h] = this]
           /\ hpc' = [hpc EXCEPT ![h] = "idle"]
           /\ hbooking' = [hbooking EXCEPT ![h] = NoBooking]
           /\ UNCHANGED hcells
        \/ /\ hcall' = [hcall EXCEPT ![h] = [this EXCEPT !.cells = cells]]
           /\ hcells' = [hcells EXCEPT ![h] = cells]
           /\ hpc' = [hpc EXCEPT ![h] = "update"]
           /\ UNCHANGED hbooking
  /\ UNCHANGED <<events, alerts, nwrites, ledger>>
  /\ UNCHANGED envVars
  /\ UNCHANGED pollVars
  /\ UNCHANGED fnVars

\* add_to_master, lines 104-106: the batched update
Update(h) ==
  /\ hpc[h] = "update"
  /\ \/ \* update_cells raises: the request ends with an error
        /\ hcall' = [hcall EXCEPT ![h].updates = 1]
        /\ hpc' = [hpc EXCEPT ![h] = "idle"]
        /\ hbooking' = [hbooking EXCEPT ![h] = NoBooking]
        /\ UNCHANGED <<ledger, nwrites>>
     \/ /\ ledger' = update_cells(ledger, hcells[h])
        /\ nwrites' = nwrites + 1
        /\ hcall' = [hcall EXCEPT ![h].updates = 1, ![h].ok = TRUE,
                                  ![h].wroteAt = nwrites + 1]
        /\ hpc' = [hpc EXCEPT ![h] = "notify"]
        /\ UNCHANGED hbooking
  /\ hcells' = [hcells EXCEPT ![h] = <<>>]
  /\ UNCHANGED <<events, alerts>>
  /\ UNCHANGED envVars
  /\ UNCHANGED pollVars
  /\ UNCHANGED fnVars

\* google_form_webhook, lines 119-129: the alert, then "OK", 200
Notify(h) ==
  /\ hpc[h] = "notify"
  /\ alerts' = alerts \cup {hbooking[h].src}
  /\ hpc' = [hpc EXCEPT ![h] = "idle"]
  /\ hbooking' = [hbooking EXCEPT ![h] = NoBooking]
  /\ UNCHANGED <<hcells, events, nwrites, hcall, ledger>>
  /\ UNCHANGED envVars
  /\ UNCHANGED pollVars
  /\ UNCHANGED fnVars

\* the master sheet the webhook program finds
InitHook ==
  /\ InitCommon
  /\ NoCalls
  /\ \E shape \in InitialShapes : ledger = InitialSheet(shape)

\* requests served one at a time
NextSeq ==
  \/ Receive(1)
  \/ ReadMaster(1)
  \/ Update(1)
  \/ Notify(1)

SpecSeq == InitHook /\ [][NextSeq]_vars

\* overlapping requests, no locking
NextHook ==
  \/ \E h \in Handlers : Receive(h)
  \/ \E h \in Handlers : ReadMaster(h)
  \/ \E h \in Handlers : Update(h)
  \/ \E h \in Handlers : Notify(h)

SpecHook == InitHook /\ [][NextHook]_vars

\* ----------------------------------------------------- the normalizers
\* a string is the sequence of its characters
Digits == {"0", "1", "2", "3", "4", "5", "6", "7", "8", "9"}

StartsWith(s, prefix) ==
  Len(s) >= Len(prefix) /\ SubSeq(s, 1, Len(prefix)) = prefix

\* a variant of parse_phone_number that drops the country code wherever the
\* digits "44" first stand, not only at the start
parse_phone_number_Anywhere(number) ==
  LET digits == SelectSeq(number, LAMBDA c : c \in Digits)
      at == {i \in 1..(Len(digits) - 1) : digits[i] = "4" /\ digits[i + 1] = "4"}
      first == CHOOSE i \in at : \A j \in at : i <= j
      stripped == IF at # {} THEN SubSeq(digits, first + 2, Len(digits))
                  ELSE digits
  IN  IF StartsWith(stripped, <<"0">>) THEN stripped ELSE <<"0">> \o stripped

parse_phone_number(number) ==
  LET digits == SelectSeq(number, LAMBDA c : c \in Digits)
      stripped == IF StartsWith(digits, <<"4", "4">>)
                  THEN SubSeq(digits, 3, Len(digits))
                  ELSE digits
  IN  IF StartsWith(stripped, <<"0">>) THEN stripped ELSE <<"0">> \o stripped

\* the ways of writing the UK country code
Prefixes == { <<"+", "4", "4">>, <<"0", "0", "4", "4">>, <<"4", "4">> }

\* ten-digit national numbers: the digits of the docstring's example with
\* the first two varied
Nationals ==
  { <<d1, d2, "0", "2", "3", "1", "2", "2", "4", "1">> :
      d1 \in {"1", "4", "7"}, d2 \in {"0", "4", "8"} }

Separators == {" ", "-"}

\* s with up to n separators put in at any places
RECURSIVE Punctuated(_, _)
Punctuated(s, n) ==
  IF n = 0 THEN {s}
  ELSE LET less == Punctuated(s, n - 1)
       IN  less \cup
           UNION { { SubSeq(t, 1, p) \o <<c>> \o SubSeq(t, p + 1, Len(t)) :
                       p \in 0..Len(t), c \in Separators } : t \in less }

\* parse_phone_number is called on a UK number written with a country code
InitPhone ==
  /\ InitCommon
  /\ ledger = InitialSheet(<<>>)
  /\ rt = NoRetry
  /\ al = NoAlert
  /\ parsed = NoParse
  /\ \E prefix \in Prefixes, national \in Nationals :
       \E number \in Punctuated(prefix \o national, MaxPunct) :
         phone = [NoPhone EXCEPT !.prefix = prefix, !.national = national,
                                 !.number = number, !.status = "called"]

ParsePhone ==
  /\ phone.status = "called"
  /\ phone' = [phone EXCEPT !.result = parse_phone_number(phone.number),
                            !.status = "returned"]
  /\ UNCHANGED <<rt, al, parsed>>
  /\ UNCHANGED progVars

NextPhone == ParsePhone

SpecPhone == InitPhone /\ [][NextPhone]_vars

\* ------------------------------------------------- parsing one record
\* parse_row or parse_booking is called on one record
InitParse ==
  /\ InitCommon
  /\ ledger = InitialSheet(<<>>)
  /\ rt = NoRetry
  /\ al = NoAlert
  /\ phone = NoPhone
  /\ \E program \in {"v2", "v2.1"}, valid \in BOOLEAN,
        persons \in SUBSET (2..MaxLabel) :
       parsed = [NoParse EXCEPT !.program = program,
                                !.data = [ts |-> 1, valid |-> valid,
                                          persons |-> persons],
                                !.status = "called"]

ParseRecord ==
  /\ parsed.status = "called"
  /\ IF ~parsed.data.valid THEN
       \* a required answer is missing
       parsed' = [parsed EXCEPT !.status = "KeyError"]
     ELSE
       parsed' = [parsed EXCEPT
                    !.status = "returned",
                    !.booking = IF parsed.program = "v2"
                                THEN parse_row(1, parsed.data)
                                ELSE parse_booking(1, parsed.data)]
  /\ UNCHANGED <<rt, al, phone>>
  /\ UNCHANGED progVars

NextParse == ParseRecord

SpecParse == InitParse /\ [][NextParse]_vars

\* ------------------------------------------------- alerting and retrying
\* the recipients of a failure alert (config.LIVE_EMAILS), taken non-empty
LIVE_EMAILS == <<"live">>

RecipientLists == UNION {[1..n -> {"live"}] : n \in 0..MaxRecipients}

\* the outcome of one call: how it ends, whether the message was handed to
\* the mail server, and the levels of the log records it wrote
send_booking_alert(logger, is_debug, log_only, recipient_emails, delivery) ==
  LET \* a message without recipients is refused
      delivered == delivery /\ recipient_emails # <<>>
      End(status, sent, logged) ==
        [status |-> status, sent |-> sent, logged |-> logged]
      pre == IF is_debug THEN <<"info">> ELSE <<>>
  IN  IF is_debug /\ recipient_emails = <<>> THEN
        \* recipient_emails[0] of an empty list
        End("IndexError", FALSE, <<>>)
      ELSE IF log_only THEN
        IF logger THEN End("returned", FALSE, <<"info", "info">>)
        ELSE End("AttributeError", FALSE, <<>>)
      ELSE IF is_debug /\ ~logger THEN
        End("AttributeError", FALSE, <<>>)
      ELSE IF logger THEN
        IF delivered THEN End("returned", TRUE, pre \o <<"info", "info">>)
        ELSE End("returned", FALSE, pre \o <<"critical">>)
      ELSE
        \* logger.info, or logger.critical in the handler, on None
        End("AttributeError", delivered, <<>>)

\* send_booking_alert called on its own
SendAlert ==
  /\ al.status = "called"
  /\ LET out == send_booking_alert(al.logger, al.debug, al.log_only,
                                    al.recipient_emails, al.delivery)
     IN  al' = [al EXCEPT !.status = out.status, !.sent = out.sent,
                          !.logged = out.logged]
  /\ UNCHANGED <<rt, phone, parsed>>
  /\ UNCHANGED progVars

\* an attempt of the wrapped function returns
CallReturns ==
  /\ rt.status = "loop"
  /\ rt' = [rt EXCEPT !.calls = @ + 1, !.status = "returned"]
  /\ UNCHANGED <<al, phone, parsed>>
  /\ UNCHANGED progVars

\* an attempt of the wrapped function raises
CallRaises ==
  /\ rt.status = "loop"
  /\ LET failed == [rt EXCEPT !.calls = @ + 1,
                              !.warnings = IF rt.logger THEN @ + 1 ELSE @]
     IN  IF rt.attempt < rt.max_retries - 1 THEN
           rt' = [failed EXCEPT !.status = "sleep"]
         ELSE
           LET out == send_booking_alert(rt.logger, TRUE, FALSE, LIVE_EMAILS,
                                         rt.delivery)
           IN  IF out.status = "returned" THEN
                 \* the bare raise
                 rt' = [failed EXCEPT !.alerts = @ + 1,
                                      !.status = "raised",
                                      !.raised = "func_error",
                                      !.raised_attempt = rt.attempt + 1]
               ELSE
                 rt' = [failed EXCEPT !.alerts = IF out.sent THEN @ + 1 ELSE @,
                                      !.status = "raised",
                                      !.raised = out.status]
  /\ UNCHANGED <<al, phone, parsed>>
  /\ UNCHANGED progVars

\* time.sleep(delay), then the next attempt
Sleep ==
  /\ rt.status = "sleep"
  /\ rt' = [rt EXCEPT !.sleeps = @ + 1, !.attempt = @ + 1, !.status = "loop"]
  /\ UNCHANGED <<al, phone, parsed>>
  /\ UNCHANGED progVars

\* a wrapped function is called, and send_booking_alert is called, with any
\* arguments
InitAlerting ==
  /\ InitCommon
  /\ ledger = InitialSheet(<<>>)
  /\ phone = NoPhone
  /\ parsed = NoParse
  /\ \E m \in 1..MaxRetries, l \in BOOLEAN, d \in BOOLEAN :
       rt = [NoRetry EXCEPT !.max_retries = m, !.logger = l, !.delivery = d,
                            !.status = "loop"]
  /\ \E l \in BOOLEAN, dbg \in BOOLEAN, lo \in BOOLEAN, d \in BOOLEAN,
        r \in RecipientLists :
       al = [NoAlert EXCEPT !.logger = l, !.debug = dbg, !.log_only = lo,
                            !.recipient_emails = r, !.delivery = d,
                            !.status = "called"]

NextAlerting ==
  \/ SendAlert
  \/ CallReturns
  \/ CallRaises
  \/ Sleep

SpecAlerting == InitAlerting /\ [][NextAlerting]_vars

\* ------------------------------------------------------------ properties
Range(seq) == {seq[i] : i \in 1..Len(seq)}

Has(sheet, rc, value) == rc \in DOMAIN sheet /\ sheet[rc] = value

\* the polling process has ended and c records how
Ended(c) == pc = "idle" /\ c.outcome \notin {"none", "running"}

FailedPartway(c) == c.outcome \in {"parse_error", "write_error"}

\* the high-water mark a run finds stored when it reads Data/hash.json
StoredMark(c) == IF ~c.debug /\ c.pre.exists THEN c.pre.datetime ELSE Epoch

Newer(c) == {i \in 1..Len(c.table.rows) : c.table.rows[i].ts > StoredMark(c)}

\* C1: over a response sheet that only grows, every source row is written to
\* the ledger exactly once: no row is written twice, and a run that completes
\* leaves no row of the table it fetched unwritten (a row it leaves out is at
\* or below the new high-water mark and is not selected again).
C1_ExactlyOnce ==
  /\ \A i \in 1..Len(srcRows) : wrote[i] <= 1
  /\ (Ended(cur) /\ cur.outcome = "ok")
       => \A i \in 1..Len(cur.table.rows) :
            cur.table.rows[i].valid => wrote[i] >= 1

ArchiveKeeps(c) ==
  \A k \in 1..Len(c.writes) :
    /\ (c.base + k) \in DOMAIN bookings
    /\ bookings[c.base + k].src = c.writes[k]

C5_HighWaterMark ==
  /\ cur.changed
       => /\ Range(cur.selected) = Newer(cur)
          /\ Range(cur.writes) \subseteq Newer(cur)
  /\ (Ended(cur) /\ cur.outcome = "ok")
       => /\ Range(cur.writes) = Newer(cur)
          /\ hashFile.exists
          /\ hashFile.datetime = cur.started

C5_Witness ==
  /\ Ended(cur) /\ cur.outcome = "ok"
  /\ StoredMark(cur) > Epoch
  /\ \E i \in 1..Len(cur.table.rows) : cur.table.rows[i].ts = StoredMark(cur)
  /\ \E j \in Range(cur.writes) : cur.table.rows[j].ts > cur.started

\* C6: a run over a table without data rows (completely empty, or the header
\* row only) writes nothing to the ledger and leaves Data/hash.json as it was.
C6_NoDataRows ==
  (Ended(cur) /\ cur.outcome # "fetch_failed" /\ cur.table.rows = <<>>)
    => /\ cur.writes = <<>>
       /\ hashFile = cur.pre

\* the master-sheet rows below the header that have an Identifier
IdCount(sheet) == Cardinality({rc \in DOMAIN sheet : rc[1] >= 2 /\ rc[2] = IdCol})

LastDataRow(sheet) ==
  LET rows == RowsOf(sheet) \cup {1}
  IN CHOOSE m \in rows : \A r \in rows : r <= m

\* add_to_master of handler h has just returned
JustWrote(h) == hpc[h] = "notify"

CellRows(cells) == {cells[j].row : j \in 1..Len(cells)}

C8_AppendOnly ==
  \A h \in Handlers : JustWrote(h) =>
    \A r \in CellRows(hcall[h].cells) : r > LastDataRow(hcall[h].sheet)

\* the two handlers read the master sheet before either wrote, and h2 wrote last
Raced(h1, h2) ==
  /\ hcall[h1].ok /\ hcall[h2].ok
  /\ hcall[h1].readAt = hcall[h2].readAt
  /\ hcall[h1].wroteAt < hcall[h2].wroteAt
  /\ hcall[h2].wroteAt = nwrites

\* C9: when two handlers read the same row count before either writes, they
\* compute the same start_row and the later batched write replaces the leader
\* cells of the earlier booking.
C9_LostUpdate ==
  \A h1, h2 \in Handlers : (h1 # h2 /\ Raced(h1, h2)) =>
    LET c1 == hcall[h1]
        c2 == hcall[h2]
        r == c1.cells[1].row
    IN /\ IdCount(c1.sheet) = IdCount(c2.sheet)
       /\ c2.cells[1].row = r
       /\ \A k \in 1..Len(c1.booking.leader) :
            LET col == ColumnOf(c1.booking.leader[k].k)
            IN /\ ~Has(ledger, <<r, col>>, c1.booking.leader[k].v)
               /\ Has(ledger, <<r, col>>, c2.booking.leader[k].v)

C9_Witness == \E h1, h2 \in Handlers : h1 # h2 /\ Raced(h1, h2)

\* the cells of the ledger that hold answers of submission b
InLedger(b) == {rc \in DOMAIN ledger : ledger[rc].kind = "str" /\ ledger[rc].b = b}

\* C10: add_to_master issues one update_cells call per booking, holding the
\* cells of the leader row and of every guest row; before the call and after
\* a failed call the ledger holds no cell of the booking, after it all of them.
C10_SingleBatch ==
  \A h \in Handlers :
    LET c == hcall[h]
        b == c.booking
        g == Len(b.guests)
    IN /\ c.updates <= 1
       /\ hpc[h] \in {"read", "update"} => InLedger(hbooking[h].src) = {}
       /\ (b.src # 0 /\ ~c.ok) => InLedger(b.src) = {}
       /\ JustWrote(h) =>
            /\ c.updates = 1
            /\ \E r \in CellRows(c.cells) : CellRows(c.cells) = r..(r + g)
            /\ \A j \in 1..Len(c.cells) :
                 Has(ledger, <<c.cells[j].row, c.cells[j].col>>, c.cells[j].value)
            /\ InLedger(b.src) \subseteq Positions(c.cells)

C10_Witness ==
  \E h \in Handlers :
    /\ JustWrote(h)
    /\ hcall[h].updates = 1
    /\ Len(hcall[h].booking.guests) >= 1
    /\ InLedger(hcall[h].booking.src) # {}

\* C11: the retry wrapper calls the wrapped function at most max_retries
\* times, makes no call after the first that returns, sleeps only between
\* two attempts, and when every attempt has raised it sends one failure
\* alert and raises the error of the last attempt to its caller, whether a
\* logger is given or not; under SpecAlerting
C11_RetryContract ==
  /\ rt.calls <= rt.max_retries
  /\ rt.sleeps <= rt.calls
  /\ rt.status \in {"returned", "raised"} => rt.sleeps = rt.calls - 1
  /\ rt.status = "raised" =>
       /\ rt.calls = rt.max_retries
       /\ rt.alerts = 1
       /\ rt.raised = "func_error"
       /\ rt.raised_attempt = rt.max_retries

\* C12: the ledger write is retried: in a poll-triggered run a ledger write
\* that fails is attempted again, so the step in which the first attempt
\* fails (the archive entry is there, the ledger is not written) does not
\* end the run; under Spec
C12_WriteRetried ==
  [][(pc = "loop" /\ cur'.appends = cur.appends + 1 /\ cur'.writes = cur.writes)
       => pc' = "loop"]_vars

\* C13: send_booking_alert never raises to its caller, whatever its
\* arguments and whatever the mail server does: it returns, and a message
\* that could not be delivered leaves a critical log record; under
\* SpecAlerting
C13_NeverRaises ==
  /\ al.status \in {"none", "called", "returned"}
  /\ (al.status = "returned" /\ ~al.log_only /\ ~al.sent) =>
       "critical" \in Range(al.logged)

\* the archive ids under which the booking of source b is stored
ArchiveIds(b) == {k \in DOMAIN bookings : bookings[k].src = b}

\* C14: a submission event is handled as one parse, one ledger write, one
\* archive append and then one notification: the notification follows a
\* ledger write that succeeded, and every event that was notified has
\* exactly one archive entry; under SpecSeq
C14_EventSteps ==
  /\ \A h \in Handlers : hpc[h] = "notify" => hcall[h].ok /\ hcall[h].updates = 1
  /\ Cardinality(alerts) <= nwrites
  /\ \A b \in alerts : Cardinality(ArchiveIds(b)) = 1

\* the rows of table df stand in Timestamp order
InTimeOrder(df) ==
  \A i, j \in 1..Len(df.rows) : i < j => df.rows[i].ts <= df.rows[j].ts

\* the Timestamps of the rows written by run c never go down
WritesAscend(c) ==
  \A k \in 1..(Len(c.writes) - 1) :
    c.table.rows[c.writes[k]].ts <= c.table.rows[c.writes[k + 1]].ts

\* run c appended to the archive before it wrote the ledger, row by row: the
\* rows written are the first rows selected, the archive holds one more
\* entry than the ledger has writes exactly when the last write failed, and
\* the entries of the run are stored in the order of processing
ArchiveThenLedger(c) ==
  /\ c.writes = SubSeq(c.selected, 1, Len(c.writes))
  /\ c.appends = Len(c.writes) + (IF c.outcome = "write_error" THEN 1 ELSE 0)
  /\ c.appends <= Len(c.selected)
  /\ \A k \in 1..c.appends :
       /\ c.base + k \in DOMAIN bookings
       /\ bookings[c.base + k].src = c.selected[k]

\* C15 as stated: the new rows of a run are processed in ascending Timestamp
\* order whatever their order in the table, and for each row the archive
\* append comes before its ledger write and before any step of the next
\* row; under SpecEdited
C15_AscendingOrder ==
  /\ WritesAscend(cur)
  /\ ArchiveThenLedger(cur)

\* C15 amended: the new rows of a run are processed in the order in which
\* they stand in the table, which is ascending Timestamp order when the
\* table is in Timestamp order, and for each row the archive append comes
\* before its ledger write and before any step of the next row; under
\* SpecEdited
C15_TableOrder ==
  /\ \A k \in 1..(Len(cur.selected) - 1) : cur.selected[k] < cur.selected[k + 1]
  /\ InTimeOrder(cur.table) => WritesAscend(cur)
  /\ ArchiveThenLedger(cur)

\* a run has written two rows of which the later one carries the earlier
\* Timestamp
C15_Witness ==
  /\ Ended(cur)
  /\ cur.outcome = "ok"
  /\ Len(cur.writes) >= 2
  /\ ~WritesAscend(cur)

\* C16: a missing required answer aborts the parsing of that one row only:
\* a run that met such a row still writes every complete row it selected,
\* so the bad row holds back neither the other rows of the run nor the rows
\* of later runs; under Spec
C16_BadRowSkipped ==
  (Ended(cur) /\ cur.changed /\ cur.outcome \in {"ok", "parse_error"}) =>
    \A i \in Range(cur.selected) :
      cur.table.rows[i].valid => i \in Range(cur.writes)

\* C17: a run started with the debug flag writes nothing to the ledger (and
\* sends no notification), it only logs; under Spec
C17_DebugNoWrites == cur.debug => cur.writes = <<>>

\* C18: the archive is write-once per booking: as long as it is not reset,
\* the booking of a source row is stored under one archive id only, also
\* when a run failed at the ledger write and was run again, and ids are
\* given out as 1, 2, 3, ...; under Spec
C18_WriteOnce ==
  /\ DOMAIN bookings = 1..Cardinality(DOMAIN bookings)
  /\ \A i \in 1..MaxRows : Cardinality(ArchiveIds(i)) <= 1

\* the least n >= 2 whose "First name (person n)" is not answered
FirstGap(persons) ==
  CHOOSE n \in 2..(MaxLabel + 1) :
    n \notin persons /\ \A m \in 2..(n - 1) : m \in persons

\* C19: the guests of a parsed record are keyed by exactly 2..k-1, in that
\* order, where k is the least n >= 2 without a "First name (person n)"
\* answer: person 2 answered and person 3 not gives the one guest 2,
\* person 2 not answered gives no guest whatever else is answered; under
\* SpecParse
C19_GuestKeys ==
  parsed.status = "returned" =>
    LET k == FirstGap(parsed.data.persons)
        guests == parsed.booking.guests
    IN  /\ Len(guests) = k - 2
        /\ \A i \in 1..Len(guests) : guests[i].k = i + 1
        /\ (2 \notin parsed.data.persons) => guests = <<>>
        /\ (2 \in parsed.data.persons /\ 3 \notin parsed.data.persons) =>
             Len(guests) = 1

\* a record with person 2 and person 4 answered but not person 3 is parsed
\* to one guest
C19_Witness ==
  /\ parsed.status = "returned"
  /\ {2, 4} \subseteq parsed.data.persons
  /\ 3 \notin parsed.data.persons
  /\ Len(parsed.booking.guests) = 1

\* C20 as stated: for "+44", "0044" or "44" followed by the ten national
\* digits, punctuated in any way, parse_phone_number returns eleven digits:
\* "0" and the national digits; under SpecPhone
C20_Normalised ==
  phone.status = "returned" =>
    /\ Len(phone.result) = 11
    /\ phone.result = <<"0">> \o phone.national

\* C20 amended: for "+44" or "44" followed by the ten national digits,
\* punctuated in any way, parse_phone_number returns eleven digits: "0" and
\* the national digits; for "0044" it returns the fourteen digits of the
\* input as they are; under SpecPhone
C20_NormalisedPlus44 ==
  phone.status = "returned" =>
    IF phone.prefix = <<"0", "0", "4", "4">> THEN
      /\ Len(phone.result) = 14
      /\ phone.result = phone.prefix \o phone.national
    ELSE
      /\ Len(phone.result) = 11
      /\ phone.result = <<"0">> \o phone.national

\* a punctuated "+44" number whose national digits begin with "44" has been
\* normalised
C20_Witness ==
  /\ phone.status = "returned"
  /\ phone.prefix = <<"+", "4", "4">>
  /\ StartsWith(phone.national, <<"4", "4">>)
  /\ Len(phone.number) > Len(phone.prefix) + Len(phone.national)
  /\ Len(phone.result) = 11

\* two cells of the list target the same position with different values
Collides(cells) ==
  \E i, j \in 1..Len(cells) :
    /\ i < j
    /\ cells[i].row = cells[j].row
    /\ cells[i].col = cells[j].col
    /\ cells[i].value # cells[j].value

\* C21: the cell list add_to_master builds for one booking holds at most
\* one write per (row, column): no two of its cells target the same position
\* with different values, neither in the list the polling program builds
\* for the row it is about to sync nor in the list a webhook handler has
\* built; under Spec
C21_OneWritePerCell ==
  /\ (pc = "loop" /\ todo # <<>> /\ responses.rows[Head(todo)].valid) =>
       ~Collides(build_cells(parse_row(Head(todo), responses.rows[Head(todo)]),
                             StartRow(ledger)))
  /\ \A h \in Handlers : ~Collides(hcells[h])

====
